---- MODULE Spec2Model ----
(***************************************************************************)
(* AWS Problem Solver Game: scoring (GameManager.calculateScore), the     *)
(* level / achievement state machine (LevelSystem) and the game session    *)
(* (GameManager with the dialogue and the hints of NPCSystem).             *)
(*                                                                         *)
(* Numbers: JavaScript doubles are modelled by integers.  basePoints and   *)
(* all counters are integers; the difficulty multiplier 1 / 1.5 / 2 is     *)
(* kept doubled (2 / 3 / 4) and the sum is halved inside the floor, which  *)
(* is exact.  (timeRemaining / timeLimit) * 50 is a double product; for    *)
(* the time limits of the question bank (45 and 60) its floor equals the   *)
(* integer quotient (timeRemaining * 50) \div timeLimit for every          *)
(* timeRemaining in 0..timeLimit.                                          *)
(***************************************************************************)
EXTENDS Integers, Sequences, FiniteSets, Bags, TLC

----------------------------------------------------------------------------
(* Bounds *)

\* hintsUsed values fed to calculateScore: 0..MaxHints
MaxHints == 4

\* number of addScore calls explored
MaxCalls == 3

\* cap on GameManager.questionsAnswered
MaxAnswered == 1

\* addScore calls and answers explored in the long session (SpecStreak)
MaxStreakCalls == 5

MaxStreakAnswered == 50

\* characters per dialogue line
MsgLen == 2

\* seconds of the countdown of the question played in the session
TickLimit == 2

\* hint resolutions in flight at once while a question is played (SpecHint)
\* and in the whole session (SpecGame); session starts in flight at once
MaxHintTasks == 2

MaxGameHints == 1

MaxGreetings == 1

\* session starts in flight at once while the greeting is presented
\* (SpecGreeting)
MaxGreetingTasks == 2

\* cap on GameManager.questionsAnswered in the session
MaxGameAnswered == 1

\* answers counted and addScore calls in a session of one category; ten
\* correct answers are what the category badges ask for
MaxCategoryAnswered == 10

MaxCategoryCalls == 10

\* submissions of one question that are followed
MaxSubmissions == 2

----------------------------------------------------------------------------
(* Values *)

\* JavaScript null / undefined, for record-valued fields, for option ids and
\* for npc ids
Null == [null |-> TRUE]

NoAnswer == "null"

NoNpc == "null"

Options == {"A", "B", "C", "D"}

Difficulties == {"easy", "medium", "hard"}

\* timeLimit of the two questions of generateMockQuestion
TimeLimits == {45, 60}

\* base points fed to calculateScore: the two of the question bank (100, 75)
\* and two small ones (0, 10)
PointsSet == {0, 10, 75, 100}

Max(a, b) == IF a >= b THEN a ELSE b

Range(s) == {s[i] : i \in 1..Len(s)}

----------------------------------------------------------------------------
(* State *)

VARIABLES
    \* GameManager
    currentQuestion,    \* Null or [points, difficulty, timeLimit, correctAnswer]
    selectedAnswer,     \* NoAnswer or an option id
    timeRemaining,
    hintsUsed,
    questionsAnswered,
    correctAnswers,
    result,             \* Null or the object returned by calculateScore
    \* LevelSystem
    currentLevel,
    currentExp,
    totalScore,
    achievements,       \* sequence of achievement ids, in unlock order
    streakCount,
    maxStreak,
    storage,            \* localStorage item 'awsGameProgress': Null or a snapshot
    \* calls of methods
    op,                 \* the method that ran last
    args,               \* its arguments
    ret,                \* its return value
    calls,              \* number of addScore calls so far
    \* the page
    screen,             \* the .screen element that is active
    currentNpc,         \* GameManager.currentNpc
    questionTimer,      \* TRUE while the setInterval of the countdown is set
    submitDisabled,     \* submit-answer-btn.disabled
    hintDisabled,       \* hint-btn.disabled
    optionsShown,       \* the options container holds option items
    hintError,          \* requestHint reported an error from the resolver
    \* NPCSystem
    isTyping,
    dialogueText,       \* dialogue-text.textContent, a sequence of characters
    \* the event loop
    tasks,              \* bag of async functions suspended on a timer or fetch
    waiters,            \* click listeners of continue-dialogue-btn, in order
    resolverCalls       \* hintLevels passed to provideHint for this question

gmVars == <<currentQuestion, selectedAnswer, timeRemaining, hintsUsed, result>>

statVars == <<questionsAnswered, correctAnswers>>

lvVars == <<currentLevel, currentExp, totalScore, achievements, streakCount,
            maxStreak, storage>>

callVars == <<op, args, ret, calls>>

pageVars == <<screen, currentNpc, questionTimer, submitDisabled, hintDisabled,
              optionsShown, hintError>>

npcVars == <<isTyping, dialogueText, tasks, waiters, resolverCalls>>

vars == <<gmVars, statVars, lvVars, callVars, pageVars, npcVars>>

----------------------------------------------------------------------------
(* GameManager.calculateScore *)

\* twice the difficultyMultiplier of the switch statement
difficultyMultiplier2(difficulty) ==
    CASE difficulty = "easy" -> 2
      [] difficulty = "medium" -> 3
      [] difficulty = "hard" -> 4
      [] OTHER -> 2

timeBonusOf(q, tr) == Max(0, (tr * 50) \div q.timeLimit)

calculateScore_scoresIncorrect(q, sel, tr, hints) ==
    LET isCorrect == sel = q.correctAnswer
        timeBonus == timeBonusOf(q, tr)
        hintPenalty == hints * 10
    IN  [isCorrect |-> isCorrect,
         selectedAnswer |-> sel,
         correctAnswer |-> q.correctAnswer,
         baseScore |-> q.points,
         difficultyMultiplier2 |-> difficultyMultiplier2(q.difficulty),
         timeBonus |-> timeBonus,
         hintPenalty |-> hintPenalty,
         totalScore |-> (q.points * difficultyMultiplier2(q.difficulty)
                           + 2 * timeBonus - 2 * hintPenalty) \div 2]

calculateScore(q, sel, tr, hints) ==
    LET isCorrect == sel = q.correctAnswer
        baseScore == q.points
        timeBonus == timeBonusOf(q, tr)
        hintPenalty == hints * 10
        m2 == difficultyMultiplier2(q.difficulty)
        \* Math.floor(baseScore * multiplier + timeBonus - hintPenalty)
        total == IF isCorrect
                 THEN (baseScore * m2 + 2 * timeBonus - 2 * hintPenalty) \div 2
                 ELSE 0
    IN  [isCorrect |-> isCorrect,
         selectedAnswer |-> sel,
         correctAnswer |-> q.correctAnswer,
         baseScore |-> baseScore,
         difficultyMultiplier2 |-> m2,
         timeBonus |-> timeBonus,
         hintPenalty |-> hintPenalty,
         totalScore |-> total]

Questions ==
    [points : PointsSet, difficulty : Difficulties, timeLimit : TimeLimits,
     correctAnswer : Options]

\* constructor of LevelSystem with an empty localStorage
LevelDefaults ==
    /\ currentLevel = 1
    /\ currentExp = 0
    /\ totalScore = 0
    /\ achievements = <<>>
    /\ streakCount = 0
    /\ maxStreak = 0
    /\ storage = Null
    /\ op = "constructor"
    /\ args = Null
    /\ ret = Null
    /\ calls = 0

\* the page once the welcome screen is shown, and the constructor of NPCSystem
PageDefaults ==
    /\ screen = "welcome"
    /\ currentNpc = NoNpc
    /\ questionTimer = FALSE
    /\ submitDisabled = TRUE
    /\ hintDisabled = FALSE
    /\ optionsShown = FALSE
    /\ hintError = FALSE
    /\ isTyping = FALSE
    /\ dialogueText = <<>>
    /\ tasks = EmptyBag
    /\ waiters = <<>>
    /\ resolverCalls = <<>>

\* a question is on screen, an option is selected, the timer has run down to
\* timeRemaining and hintsUsed hints were taken
InitScore ==
    /\ currentQuestion \in Questions
    /\ selectedAnswer \in Options
    /\ timeRemaining \in 0..currentQuestion.timeLimit
    /\ hintsUsed \in 0..MaxHints
    /\ questionsAnswered = 0
    /\ correctAnswers = 0
    /\ result = Null
    /\ LevelDefaults
    /\ PageDefaults

CalculateScore ==
    /\ result = Null
    /\ result' = calculateScore(currentQuestion, selectedAnswer, timeRemaining,
                                hintsUsed)
    /\ UNCHANGED <<currentQuestion, selectedAnswer, timeRemaining, hintsUsed>>
    /\ UNCHANGED <<statVars, lvVars, callVars, pageVars, npcVars>>

NextScore == CalculateScore

SpecScore == InitScore /\ [][NextScore]_vars

----------------------------------------------------------------------------
(* LevelSystem *)

levelThresholds ==
    <<0, 100, 300, 600, 1000, 1500, 2100, 2800, 3600, 4500,
      5500, 6600, 7800, 9100, 10500, 12000, 13600, 15300, 17100, 19000>>

\* keys of achievementDefinitions, in declaration order
achievementOrder ==
    <<"first_correct", "streak_5", "streak_10", "perfect_score", "speed_demon",
      "ec2_expert", "s3_master", "lambda_guru", "accuracy_master",
      "persistent_learner", "high_scorer">>

\* the loop of calculateLevel, from index i (1-based) downwards
RECURSIVE calculateLevelFrom(_, _)
calculateLevelFrom(exp, i) ==
    IF i < 1 THEN 1
    ELSE IF exp >= levelThresholds[i] THEN i
    ELSE calculateLevelFrom(exp, i - 1)

calculateLevel(exp) == calculateLevelFrom(exp, Len(levelThresholds))

getCategoryStats == [EC2 |-> 0, S3 |-> 0, Lambda |-> 0, RDS |-> 0, VPC |-> 0]

getPlayerStats(gmCorrect, gmAnswered, total, maxS, streak) ==
    [correctAnswers |-> gmCorrect,
     questionsAnswered |-> gmAnswered,
     totalScore |-> total,
     maxStreak |-> maxS,
     currentStreak |-> streak,
     categoryStats |-> getCategoryStats]

\* achievementDefinitions[id].condition(stats, lastResult)
condition(id, stats, lastResult) ==
    CASE id = "first_correct" -> stats.correctAnswers >= 1
      [] id = "streak_5" -> stats.maxStreak >= 5
      [] id = "streak_10" -> stats.maxStreak >= 10
      [] id = "perfect_score" ->
            /\ lastResult # Null
            /\ lastResult.isCorrect
            /\ lastResult.hintPenalty = 0
            /\ lastResult.timeBonus > 0
      [] id = "speed_demon" ->
            /\ lastResult # Null
            /\ lastResult.isCorrect
            /\ lastResult.timeBonus >= 40
      [] id = "ec2_expert" -> stats.categoryStats.EC2 >= 10
      [] id = "s3_master" -> stats.categoryStats.S3 >= 10
      [] id = "lambda_guru" -> stats.categoryStats.Lambda >= 10
      [] id = "accuracy_master" ->
            /\ stats.questionsAnswered >= 10
            \* correctAnswers / questionsAnswered >= 0.9
            /\ 10 * stats.correctAnswers >= 9 * stats.questionsAnswered
      [] id = "persistent_learner" -> stats.questionsAnswered >= 50
      [] id = "high_scorer" -> stats.totalScore >= 5000
      [] OTHER -> FALSE

\* this.achievements.includes(achievementId)
includes_never(unlocked, id) == FALSE

includes(unlocked, id) == id \in Range(unlocked)

\* the for-in loop of checkAchievements from definition i on: unlocked is
\* this.achievements, new the local newAchievements
RECURSIVE checkLoop(_, _, _, _, _)
checkLoop(i, unlocked, new, stats, questionResult) ==
    IF i > Len(achievementOrder) THEN [achievements |-> unlocked, newAchievements |-> new]
    ELSE LET id == achievementOrder[i]
         IN  IF includes(unlocked, id)
             THEN checkLoop(i + 1, unlocked, new, stats, questionResult)
             ELSE IF condition(id, stats, questionResult)
             THEN checkLoop(i + 1, Append(unlocked, id), Append(new, id), stats,
                            questionResult)
             ELSE checkLoop(i + 1, unlocked, new, stats, questionResult)

checkAchievements(unlocked, stats, questionResult) ==
    checkLoop(1, unlocked, <<>>, stats, questionResult)

\* this.achievements.slice(-5)
getRecentAchievements(unlocked) ==
    IF Len(unlocked) <= 5 THEN unlocked
    ELSE SubSeq(unlocked, Len(unlocked) - 4, Len(unlocked))

\* the object written by saveUserProgress (lastSaved left out)
progressData(level, exp, total, unlocked, streak, maxS) ==
    [level |-> level, exp |-> exp, totalScore |-> total,
     achievements |-> unlocked, streakCount |-> streak, maxStreak |-> maxS]

----------------------------------------------------------------------------
(* Inputs of addScore *)

q001 == [points |-> 100, difficulty |-> "medium", timeLimit |-> 60,
         correctAnswer |-> "B"]

\* a question worth fewer points than three hints cost
qSmall == [points |-> 10, difficulty |-> "easy", timeLimit |-> 45,
           correctAnswer |-> "B"]

\* results of calculateScore: a wrong answer, a fast correct answer without
\* hints, and a correct answer to qSmall at the last second after three hints
SampleResults ==
    {calculateScore(q001, "A", 30, 1),
     calculateScore(q001, "B", 50, 0),
     calculateScore(qSmall, "B", 0, 3)}

\* score arguments of calls without a result
Scores == {10, 95, 19000}

\* addScore(result.totalScore, result) and addScore(score)
AddScoreInputs ==
    {[score |-> r.totalScore, questionResult |-> r] : r \in SampleResults}
    \cup {[score |-> s, questionResult |-> Null] : s \in Scores}

----------------------------------------------------------------------------
(* Actions of the progression specification *)

Init ==
    /\ currentQuestion = Null
    /\ selectedAnswer = NoAnswer
    /\ timeRemaining = 0
    /\ hintsUsed = 0
    /\ questionsAnswered = 0
    /\ correctAnswers = 0
    /\ result = Null
    /\ LevelDefaults
    /\ PageDefaults

\* this.currentExp += score
expAfter_clamped(exp, score) == exp + Max(0, score)

expAfter(exp, score) == exp + score

\* the streak branch of addScore: questionResult && questionResult.isCorrect
streakAfter_keptOnMiss(streak, questionResult) ==
    IF questionResult # Null /\ questionResult.isCorrect
    THEN streak + 1
    ELSE streak

streakAfter(streak, questionResult) ==
    IF questionResult # Null /\ questionResult.isCorrect
    THEN streak + 1
    ELSE 0

maxStreakAfter(maxS, streak, questionResult) ==
    IF questionResult # Null /\ questionResult.isCorrect
    THEN Max(maxS, streak)
    ELSE maxS

\* const leveledUp = newLevel > this.currentLevel
leveledUpOf_orEqual(newLevel, level) == newLevel >= level

leveledUpOf(newLevel, level) == newLevel > level

\* if (leveledUp) this.currentLevel = newLevel
levelAfter_alwaysAssigned(level, newLevel, leveledUp) == newLevel

levelAfter(level, newLevel, leveledUp) ==
    IF leveledUp THEN newLevel ELSE level

\* addScore, explored for at most cap calls
AddScoreUpTo(score, questionResult, cap) ==
    /\ calls < cap
    /\ LET total == totalScore + score
           exp == expAfter(currentExp, score)
           streak == streakAfter(streakCount, questionResult)
           maxS == maxStreakAfter(maxStreak, streak, questionResult)
           newLevel == calculateLevel(exp)
           leveledUp == leveledUpOf(newLevel, currentLevel)
           level == levelAfter(currentLevel, newLevel, leveledUp)
           stats == getPlayerStats(correctAnswers, questionsAnswered, total,
                                   maxS, streak)
           checked == checkAchievements(achievements, stats, questionResult)
       IN  /\ totalScore' = total
           /\ currentExp' = exp
           /\ streakCount' = streak
           /\ maxStreak' = maxS
           /\ currentLevel' = level
           /\ achievements' = checked.achievements
           /\ storage' = progressData(level, exp, total, checked.achievements,
                                      streak, maxS)
           /\ ret' = [leveledUp |-> leveledUp,
                      newLevel |-> level,
                      newAchievements |->
                          getRecentAchievements(checked.achievements)]
    /\ op' = "addScore"
    /\ args' = [score |-> score, questionResult |-> questionResult]
    /\ calls' = calls + 1
    /\ UNCHANGED <<gmVars, statVars, pageVars, npcVars>>

AddScore(score, questionResult) == AddScoreUpTo(score, questionResult, MaxCalls)

\* checkAchievements called on its own
CheckAchievements(questionResult) ==
    /\ LET stats == getPlayerStats(correctAnswers, questionsAnswered,
                                   totalScore, maxStreak, streakCount)
           checked == checkAchievements(achievements, stats, questionResult)
       IN  /\ achievements' = checked.achievements
           /\ ret' = [newAchievements |-> checked.newAchievements]
    /\ op' = "checkAchievements"
    /\ args' = [questionResult |-> questionResult]
    /\ UNCHANGED <<currentLevel, currentExp, totalScore, streakCount,
                   maxStreak, storage, calls, gmVars, statVars, pageVars,
                   npcVars>>

ResetProgress ==
    /\ currentLevel' = 1
    /\ currentExp' = 0
    /\ totalScore' = 0
    /\ achievements' = <<>>
    /\ streakCount' = 0
    /\ maxStreak' = 0
    /\ storage' = Null
    /\ op' = "resetProgress"
    /\ args' = Null
    /\ ret' = Null
    /\ UNCHANGED <<calls, gmVars, statVars, pageVars, npcVars>>

\* the statistics update of GameManager.handleAnswerResult, explored up to
\* cap answers
HandleAnswerResultUpTo(isCorrect, cap) ==
    /\ questionsAnswered < cap
    /\ questionsAnswered' = questionsAnswered + 1
    /\ correctAnswers' = IF isCorrect THEN correctAnswers + 1 ELSE correctAnswers
    /\ UNCHANGED <<gmVars, lvVars, callVars, pageVars, npcVars>>

HandleAnswerResult(isCorrect) == HandleAnswerResultUpTo(isCorrect, MaxAnswered)

Next ==
    \/ \E in \in AddScoreInputs : AddScore(in.score, in.questionResult)
    \/ \E questionResult \in SampleResults \cup {Null} :
          CheckAchievements(questionResult)
    \/ ResetProgress
    \/ \E isCorrect \in BOOLEAN : HandleAnswerResult(isCorrect)

SpecLevel == Init /\ [][Next]_vars

----------------------------------------------------------------------------
(* LevelSystem with loadUserProgress called again after construction *)

\* progressData.field || fallback, for a number
orDefault_ignored(value, fallback) == fallback

orDefault(value, fallback) == IF value = 0 THEN fallback ELSE value

\* loadUserProgress; the saved achievements are an array, which is truthy
LoadUserProgress ==
    /\ IF storage = Null
       THEN UNCHANGED <<currentLevel, currentExp, totalScore, achievements,
                        streakCount, maxStreak>>
       ELSE /\ currentLevel' = orDefault(storage.level, 1)
            /\ currentExp' = orDefault(storage.exp, 0)
            /\ totalScore' = orDefault(storage.totalScore, 0)
            /\ achievements' = storage.achievements
            /\ streakCount' = orDefault(storage.streakCount, 0)
            /\ maxStreak' = orDefault(storage.maxStreak, 0)
    /\ op' = "loadUserProgress"
    /\ args' = Null
    /\ ret' = Null
    /\ UNCHANGED <<storage, calls, gmVars, statVars, pageVars, npcVars>>

NextProgress ==
    \/ \E in \in AddScoreInputs : AddScore(in.score, in.questionResult)
    \/ \E questionResult \in SampleResults \cup {Null} :
          CheckAchievements(questionResult)
    \/ ResetProgress
    \/ LoadUserProgress
    \/ \E isCorrect \in BOOLEAN : HandleAnswerResult(isCorrect)

SpecProgress == Init /\ [][NextProgress]_vars

----------------------------------------------------------------------------
(* The fifth correct answer in a row: a long session of the same LevelSystem *)

\* a question worth enough to pass 5000 points with one answer
qBig == [points |-> 2500, difficulty |-> "hard", timeLimit |-> 60,
         correctAnswer |-> "B"]

\* a correct answer after 15 s with one hint, and a fast correct answer to
\* qBig without hints
StreakResults ==
    {calculateScore(q001, "B", 45, 1),
     calculateScore(qBig, "B", 50, 0)}

AddScoreInStreak(score, questionResult) ==
    AddScoreUpTo(score, questionResult, MaxStreakCalls)

CountAnswer(isCorrect) == HandleAnswerResultUpTo(isCorrect, MaxStreakAnswered)

NextStreak ==
    \/ \E r \in StreakResults : AddScoreInStreak(r.totalScore, r)
    \/ \E isCorrect \in BOOLEAN : CountAnswer(isCorrect)

SpecStreak == Init /\ [][NextStreak]_vars

----------------------------------------------------------------------------
(* The game session: GameManager with NPCSystem on the page.               *)
(*                                                                         *)
(* JavaScript runs one handler at a time.  An async function runs until    *)
(* its next await of a timer, of the network or of a click; its            *)
(* continuation is a later step.  Awaits of already settled promises are   *)
(* part of the same step.  Timers of different tasks fire in any order.    *)
(* The style.display of the dialogue area and of its buttons is not        *)
(* modelled.                                                               *)

\* greetings.length of each npcData entry
GreetingLines == 3

\* the text of a dialogue line, character by character
Msg(kind, n) == [i \in 1..MsgLen |-> <<kind, n, i>>]

\* q001 of generateMockQuestion with a countdown of TickLimit seconds
gameQuestion ==
    [points |-> 100, difficulty |-> "medium", timeLimit |-> TickLimit,
     correctAnswer |-> "B", category |-> "EC2"]

\* the options the player clicks: a wrong one and the right one
GameOptions == {"A", "B"}

AddTask(bag, t) == bag (+) SetToBag({t})

RemoveTask(bag, t) == bag (-) SetToBag({t})

TasksOf(kinds) == {t \in BagToSet(tasks) : t.kind \in kinds}

\* number of suspended tasks of the given kinds
CountIn(bag, kinds) ==
    BagCardinality([t \in {x \in BagToSet(bag) : x.kind \in kinds} |-> bag[t]])

WaitersOf(kind) == SelectSeq(waiters, LAMBDA w : w.kind = kind)

HintsInFlight == CountIn(tasks, {"fetch", "hint"}) + Len(WaitersOf("hint"))

\* submissions accepted and not yet counted in questionsAnswered
SubmitsInFlight == CountIn(tasks, {"reveal", "response", "shown"})

GreetingsInFlight ==
    CountIn(tasks, {"start", "greeting"}) + Len(WaitersOf("greeting"))

\* typeMessage up to its first sleep
typeStart_unarmed(message) ==
    IF Len(message) > 0
    THEN [isTyping |-> FALSE, dialogueText |-> <<message[1]>>, finished |-> FALSE]
    ELSE [isTyping |-> FALSE, dialogueText |-> <<>>, finished |-> TRUE]

typeStart(message) ==
    IF Len(message) > 0
    THEN [isTyping |-> TRUE, dialogueText |-> <<message[1]>>, finished |-> FALSE]
    ELSE [isTyping |-> FALSE, dialogueText |-> <<>>, finished |-> TRUE]

\* typeMessage after a sleep, k characters appended so far
typeResume(message, k, typing, text) ==
    IF k < Len(message) /\ typing
    THEN [isTyping |-> TRUE, dialogueText |-> Append(text, message[k + 1]),
          finished |-> FALSE]
    ELSE [isTyping |-> FALSE,
          dialogueText |-> IF typing THEN text ELSE message,
          finished |-> TRUE]

\* resetGameState
ResetGameState ==
    /\ currentQuestion' = Null
    /\ selectedAnswer' = NoAnswer
    /\ hintsUsed' = 0
    /\ timeRemaining' = 0
    /\ questionTimer' = FALSE

\* loadQuestion: displayQuestion with resetQuestionUI, then startQuestionTimer
LoadQuestion_timeKept ==
    /\ currentQuestion' = gameQuestion
    /\ optionsShown' = TRUE
    /\ selectedAnswer' = NoAnswer
    /\ hintsUsed' = 0
    /\ submitDisabled' = TRUE
    /\ questionTimer' = TRUE
    /\ timeRemaining' = timeRemaining
    /\ resolverCalls' = <<>>

LoadQuestion ==
    /\ currentQuestion' = gameQuestion
    /\ optionsShown' = TRUE
    /\ selectedAnswer' = NoAnswer
    /\ hintsUsed' = 0
    /\ submitDisabled' = TRUE
    /\ questionTimer' = TRUE
    /\ timeRemaining' = gameQuestion.timeLimit
    /\ resolverCalls' = <<>>

----------------------------------------------------------------------------
(* Hints: GameManager.requestHint and NPCSystem.requestNpcHint *)

\* what the remote call can come to: fetch rejects, the status is not ok,
\* response.json() rejects, the body parses but has neither hint nor message,
\* the body is a hint
RemoteOutcomes == {"network_error", "http_error", "bad_json", "no_text", "ok"}

\* the hint of a response body of POST /hints
remoteHint(hintLevel) ==
    [hint |-> Msg("hint", hintLevel), message |-> Msg("remote", hintLevel),
     hintLevel |-> hintLevel, source |-> "amazon_q"]

\* a response body that parses but carries no text
emptyBody(hintLevel) == [hintLevel |-> hintLevel, source |-> "amazon_q"]

\* hintData.message || hintData.hint is defined
hasText(hintData) ==
    \/ "message" \in DOMAIN hintData /\ Len(hintData.message) > 0
    \/ "hint" \in DOMAIN hintData

\* hintData.message || hintData.hint
messageOf(hintData) ==
    IF "message" \in DOMAIN hintData /\ Len(hintData.message) > 0
    THEN hintData.message
    ELSE hintData.hint

\* categoryHints[hintLevel] || defaultHints[hintLevel] is defined
fallbackDefined(hintLevel) == hintLevel \in 1..3

generateEnhancedFallbackHint_blank(questionData, hintLevel) ==
    [hint |-> <<>>, message |-> <<>>, hintLevel |-> hintLevel,
     source |-> "enhanced_fallback"]

generateEnhancedFallbackHint(questionData, hintLevel) ==
    [hint |-> Msg("base", hintLevel), message |-> Msg("fallback", hintLevel),
     hintLevel |-> hintLevel, source |-> "enhanced_fallback"]

\* the hintLevel requestHint passes to provideHint
hintLevelOf(used) == used + 1

\* updateHintButton
hintButtonAfter(disabled, used) == disabled \/ 3 - used <= 0

\* requestHint, the click handler of hint-btn, explored with at most cap
\* resolutions in flight
HintClickUpTo(cap) ==
    /\ screen = "game"
    /\ ~hintDisabled
    /\ IF currentQuestion = Null \/ hintsUsed >= 3
       THEN UNCHANGED <<hintsUsed, hintDisabled, tasks, resolverCalls>>
       ELSE IF currentNpc # NoNpc
       THEN /\ HintsInFlight < cap
            /\ tasks' = AddTask(tasks, [kind |-> "fetch",
                                        level |-> hintLevelOf(hintsUsed)])
            /\ resolverCalls' = Append(resolverCalls, hintLevelOf(hintsUsed))
            /\ UNCHANGED <<hintsUsed, hintDisabled>>
       ELSE \* showBasicHint
            /\ hintsUsed' = hintsUsed + 1
            /\ hintDisabled' = hintButtonAfter(hintDisabled, hintsUsed + 1)
            /\ UNCHANGED <<tasks, resolverCalls>>
    /\ UNCHANGED <<currentQuestion, selectedAnswer, timeRemaining, result>>
    /\ UNCHANGED <<screen, currentNpc, questionTimer, submitDisabled,
                   optionsShown, hintError>>
    /\ UNCHANGED <<isTyping, dialogueText, waiters>>
    /\ UNCHANGED <<statVars, lvVars, callVars>>

HintClick == HintClickUpTo(MaxHintTasks)

GameHintClick == HintClickUpTo(MaxGameHints)

\* the remote call of a pending requestNpcHint settles, and the function runs
\* up to the first sleep of the typeMessage that presents the hint
RemoteResponds(t, outcome) ==
    /\ t \in TasksOf({"fetch"})
    /\ LET body == IF outcome = "ok" THEN remoteHint(t.level)
                   ELSE emptyBody(t.level)
           parsed == outcome \in {"ok", "no_text"}
           \* typeMessage(undefined) throws after it has set isTyping and
           \* cleared the text
           threw == parsed /\ ~hasText(body)
           caught == ~parsed \/ threw
           hint == IF caught
                   THEN \* questionData is the question the hint was asked for
                        generateEnhancedFallbackHint(gameQuestion, t.level)
                   ELSE body
       IN  IF caught /\ ~fallbackDefined(t.level)
           THEN \* the catch block throws to requestHint
                /\ hintError' = TRUE
                /\ isTyping' = (threw \/ isTyping)
                /\ dialogueText' = IF threw THEN <<>> ELSE dialogueText
                /\ tasks' = RemoveTask(tasks, t)
                /\ UNCHANGED waiters
           ELSE LET ty == typeStart(messageOf(hint))
                    h == [kind |-> "hint", hint |-> hint]
                IN  /\ isTyping' = ty.isTyping
                    /\ dialogueText' = ty.dialogueText
                    /\ IF ty.finished
                       THEN /\ tasks' = RemoveTask(tasks, t)
                            /\ waiters' = Append(waiters, h)
                       ELSE /\ tasks' = AddTask(RemoveTask(tasks, t),
                                                [kind |-> "hint",
                                                 hint |-> hint, k |-> 1])
                            /\ UNCHANGED waiters
                    /\ UNCHANGED hintError
    /\ UNCHANGED <<gmVars, statVars, lvVars, callVars, resolverCalls>>
    /\ UNCHANGED <<screen, currentNpc, questionTimer, submitDisabled,
                   hintDisabled, optionsShown>>

\* a sleep of the typeMessage of showNpcHint ends; after the last character
\* showNpcHint waits for continue
HintTypes(t) ==
    /\ t \in TasksOf({"hint"})
    /\ LET ty == typeResume(messageOf(t.hint), t.k, isTyping, dialogueText)
       IN  /\ isTyping' = ty.isTyping
           /\ dialogueText' = ty.dialogueText
           /\ IF ty.finished
              THEN /\ tasks' = RemoveTask(tasks, t)
                   /\ waiters' = Append(waiters, [kind |-> "hint",
                                                  hint |-> t.hint])
              ELSE /\ tasks' = AddTask(RemoveTask(tasks, t),
                                       [t EXCEPT !.k = t.k + 1])
                   /\ UNCHANGED waiters
    /\ UNCHANGED <<gmVars, statVars, lvVars, callVars, pageVars, resolverCalls>>

----------------------------------------------------------------------------
(* Dialogue: greeting, continue and skip *)

\* the handlers of one click on continue-dialogue-btn, in the order they were
\* registered; st holds the fields they change
RECURSIVE resumeAll(_, _)
resumeAll(ws, st) ==
    IF ws = <<>> THEN st
    ELSE LET w == Head(ws)
         IN  IF w.kind = "hint"
             THEN \* showNpcHint and requestNpcHint return, requestHint counts
                  resumeAll(Tail(ws),
                      [st EXCEPT !.hintsUsed = @ + 1,
                                 !.hintDisabled =
                                     hintButtonAfter(@, st.hintsUsed + 1)])
             ELSE \* showGreeting types its next line
                  LET ty == typeStart(Msg("greeting", w.i + 1))
                  IN  resumeAll(Tail(ws),
                          [st EXCEPT !.isTyping = ty.isTyping,
                                     !.dialogueText = ty.dialogueText,
                                     !.tasks = AddTask(@,
                                         [kind |-> "greeting", i |-> w.i + 1,
                                          k |-> 1])])

ContinueClick ==
    /\ screen = "game"
    /\ LET st == resumeAll(waiters,
                     [hintsUsed |-> hintsUsed, hintDisabled |-> hintDisabled,
                      isTyping |-> isTyping, dialogueText |-> dialogueText,
                      tasks |-> tasks])
       IN  /\ hintsUsed' = st.hintsUsed
           /\ hintDisabled' = st.hintDisabled
           /\ isTyping' = st.isTyping
           /\ dialogueText' = st.dialogueText
           /\ tasks' = st.tasks
    /\ waiters' = <<>>
    /\ UNCHANGED <<currentQuestion, selectedAnswer, timeRemaining, result>>
    /\ UNCHANGED <<screen, currentNpc, questionTimer, submitDisabled,
                   optionsShown, hintError>>
    /\ UNCHANGED <<statVars, lvVars, callVars, resolverCalls>>

\* skipDialogue, the click handler of skip-dialogue-btn
SkipClick ==
    /\ screen = "game"
    /\ isTyping' = FALSE
    /\ UNCHANGED <<dialogueText, tasks, waiters, resolverCalls>>
    /\ UNCHANGED <<gmVars, statVars, lvVars, callVars, pageVars>>

\* startGame with a user name and a game mode entered
StartGame ==
    /\ screen = "welcome"
    /\ screen' = "npc-selection"
    /\ UNCHANGED <<currentNpc, questionTimer, submitDisabled, hintDisabled,
                   optionsShown, hintError>>
    /\ UNCHANGED <<gmVars, statVars, lvVars, callVars, npcVars>>

\* showWelcomeScreen, the click handler of back-to-welcome-btn
BackToWelcome ==
    /\ screen = "npc-selection"
    /\ screen' = "welcome"
    /\ ResetGameState
    /\ UNCHANGED <<result, currentNpc, submitDisabled, hintDisabled,
                   optionsShown, hintError>>
    /\ UNCHANGED <<statVars, lvVars, callVars, npcVars>>

\* selectNpc, the click handler of the npc cards, explored with at most cap
\* session starts in flight
SelectNpcUpTo(cap) ==
    /\ screen = "npc-selection"
    /\ GreetingsInFlight < cap
    /\ currentNpc' = "alex_ceo"
    /\ tasks' = AddTask(tasks, [kind |-> "start"])
    /\ UNCHANGED <<screen, questionTimer, submitDisabled, hintDisabled,
                   optionsShown, hintError>>
    /\ UNCHANGED <<isTyping, dialogueText, waiters, resolverCalls>>
    /\ UNCHANGED <<gmVars, statVars, lvVars, callVars>>

SelectNpc == SelectNpcUpTo(MaxGreetings)

GreetingSelectNpc == SelectNpcUpTo(MaxGreetingTasks)

\* the timeout of selectNpc: startGameSession, startNpcDialogue and
\* showGreeting up to the first sleep of its first typeMessage
StartGameSession ==
    /\ [kind |-> "start"] \in TasksOf({"start"})
    /\ screen' = "game"
    /\ LET ty == typeStart(Msg("greeting", 1))
       IN  /\ isTyping' = ty.isTyping
           /\ dialogueText' = ty.dialogueText
    /\ tasks' = AddTask(RemoveTask(tasks, [kind |-> "start"]),
                        [kind |-> "greeting", i |-> 1, k |-> 1])
    /\ UNCHANGED <<currentNpc, questionTimer, submitDisabled, hintDisabled,
                   optionsShown, hintError>>
    /\ UNCHANGED <<waiters, resolverCalls>>
    /\ UNCHANGED <<gmVars, statVars, lvVars, callVars>>

\* a sleep of the typeMessage of showGreeting ends; after the last character
\* of a line showGreeting waits for continue, after the last line it loads
\* the question
GreetingTypes(t) ==
    /\ t \in TasksOf({"greeting"})
    /\ LET ty == typeResume(Msg("greeting", t.i), t.k, isTyping, dialogueText)
       IN  /\ isTyping' = ty.isTyping
           /\ dialogueText' = ty.dialogueText
           /\ IF ~ty.finished
              THEN /\ tasks' = AddTask(RemoveTask(tasks, t),
                                       [t EXCEPT !.k = t.k + 1])
                   /\ UNCHANGED <<waiters, resolverCalls, gmVars, pageVars>>
              ELSE IF t.i < GreetingLines
              THEN /\ tasks' = RemoveTask(tasks, t)
                   /\ waiters' = Append(waiters, [kind |-> "greeting",
                                                  i |-> t.i])
                   /\ UNCHANGED <<resolverCalls, gmVars, pageVars>>
              ELSE /\ tasks' = RemoveTask(tasks, t)
                   /\ LoadQuestion
                   /\ UNCHANGED <<waiters, result, screen, currentNpc,
                                  hintDisabled, hintError>>
    /\ UNCHANGED <<statVars, lvVars, callVars>>

----------------------------------------------------------------------------
(* Answering: options, countdown, submitAnswer and the result screen *)

\* selectOption, the click handler of an option item
SelectOption(optionId) ==
    /\ screen = "game"
    /\ optionsShown
    /\ submitDisabled' = FALSE
    /\ selectedAnswer' = optionId
    /\ UNCHANGED <<currentQuestion, timeRemaining, hintsUsed, result>>
    /\ UNCHANGED <<screen, currentNpc, questionTimer, hintDisabled,
                   optionsShown, hintError>>
    /\ UNCHANGED <<statVars, lvVars, callVars, npcVars>>

\* submitAnswer has passed its guard: up to the sleep of revealAnswers
AcceptAnswer_whenIdle ==
    /\ HintsInFlight = 0
    /\ questionsAnswered + SubmitsInFlight < MaxGameAnswered
    /\ questionTimer' = FALSE
    /\ submitDisabled' = TRUE
    /\ tasks' = AddTask(tasks, [kind |-> "reveal"])

AcceptAnswer ==
    /\ questionsAnswered + SubmitsInFlight < MaxGameAnswered
    /\ questionTimer' = FALSE
    /\ submitDisabled' = TRUE
    /\ tasks' = AddTask(tasks, [kind |-> "reveal"])

\* submitAnswer, the click handler of submit-answer-btn
SubmitClick ==
    /\ screen = "game"
    /\ ~submitDisabled
    /\ IF selectedAnswer = NoAnswer \/ currentQuestion = Null
       THEN UNCHANGED <<questionTimer, submitDisabled, tasks>>
       ELSE AcceptAnswer
    /\ UNCHANGED <<gmVars, statVars, lvVars, callVars>>
    /\ UNCHANGED <<screen, currentNpc, hintDisabled, optionsShown, hintError>>
    /\ UNCHANGED <<isTyping, dialogueText, waiters, resolverCalls>>

\* the answer timeUp submits: if (!this.selectedAnswer) this.selectedAnswer = 'A'
timeUpAnswer_kept(selected) == selected

timeUpAnswer(selected) == IF selected = NoAnswer THEN "A" ELSE selected

\* the interval callback of startQuestionTimer, with timeUp at zero
TimerTick ==
    /\ questionTimer
    /\ timeRemaining' = timeRemaining - 1
    /\ IF timeRemaining - 1 > 0
       THEN UNCHANGED <<selectedAnswer, questionTimer, submitDisabled, tasks>>
       ELSE /\ selectedAnswer' = timeUpAnswer(selectedAnswer)
            /\ IF currentQuestion = Null
               THEN /\ questionTimer' = FALSE
                    /\ UNCHANGED <<submitDisabled, tasks>>
               ELSE AcceptAnswer
    /\ UNCHANGED <<currentQuestion, hintsUsed, result>>
    /\ UNCHANGED <<screen, currentNpc, hintDisabled, optionsShown, hintError>>
    /\ UNCHANGED <<isTyping, dialogueText, waiters, resolverCalls>>
    /\ UNCHANGED <<statVars, lvVars, callVars>>

\* the sleep of revealAnswers ends: calculateScore, then handleAnswerResult
\* and showAnswerResponse up to the first sleep of typeMessage
RevealDone ==
    /\ [kind |-> "reveal"] \in TasksOf({"reveal"})
    /\ IF currentQuestion = Null
       THEN \* calculateScore throws, submitAnswer ends
            /\ tasks' = RemoveTask(tasks, [kind |-> "reveal"])
            /\ UNCHANGED <<isTyping, dialogueText>>
       ELSE LET r == calculateScore(currentQuestion, selectedAnswer,
                                    timeRemaining, hintsUsed)
                ty == typeStart(Msg("response", IF r.isCorrect THEN 1 ELSE 0))
            IN  /\ isTyping' = ty.isTyping
                /\ dialogueText' = ty.dialogueText
                /\ tasks' = AddTask(RemoveTask(tasks, [kind |-> "reveal"]),
                                    [kind |-> "response", result |-> r,
                                     k |-> 1])
    /\ UNCHANGED <<waiters, resolverCalls>>
    /\ UNCHANGED <<gmVars, statVars, lvVars, callVars, pageVars>>

\* a sleep of the typeMessage of showAnswerResponse ends; after the last
\* character the response stays for 2 seconds
ResponseTypes(t) ==
    /\ t \in TasksOf({"response"})
    /\ LET ty == typeResume(Msg("response", IF t.result.isCorrect THEN 1 ELSE 0),
                            t.k, isTyping, dialogueText)
       IN  /\ isTyping' = ty.isTyping
           /\ dialogueText' = ty.dialogueText
           /\ tasks' = AddTask(RemoveTask(tasks, t),
                               IF ty.finished
                               THEN [kind |-> "shown", result |-> t.result]
                               ELSE [t EXCEPT !.k = t.k + 1])
    /\ UNCHANGED <<waiters, resolverCalls>>
    /\ UNCHANGED <<gmVars, statVars, lvVars, callVars, pageVars>>

\* the 2 seconds of showAnswerResponse end: handleAnswerResult updates the
\* statistics and submitAnswer sets the timeout of the result screen
ResponseShown(t) ==
    /\ t \in TasksOf({"shown"})
    /\ questionsAnswered' = questionsAnswered + 1
    /\ correctAnswers' = IF t.result.isCorrect THEN correctAnswers + 1
                         ELSE correctAnswers
    /\ tasks' = AddTask(RemoveTask(tasks, t),
                        [kind |-> "resultDelay", result |-> t.result])
    /\ UNCHANGED <<isTyping, dialogueText, waiters, resolverCalls>>
    /\ UNCHANGED <<gmVars, lvVars, callVars, pageVars>>

\* the timeout of submitAnswer: showResultScreen and displayResult
ShowResult(t) ==
    /\ t \in TasksOf({"resultDelay"})
    /\ screen' = "result"
    /\ tasks' = RemoveTask(tasks, t)
    /\ UNCHANGED <<currentNpc, questionTimer, submitDisabled, hintDisabled,
                   optionsShown, hintError>>
    /\ UNCHANGED <<isTyping, dialogueText, waiters, resolverCalls>>
    /\ UNCHANGED <<gmVars, statVars, lvVars, callVars>>

\* loadNextQuestion, the click handler of next-question-btn
NextQuestionClick ==
    /\ screen = "result"
    /\ LoadQuestion
    /\ screen' = "game"
    /\ UNCHANGED <<result, currentNpc, hintDisabled, hintError>>
    /\ UNCHANGED <<isTyping, dialogueText, tasks, waiters>>
    /\ UNCHANGED <<statVars, lvVars, callVars>>

\* endSession, the click handler of end-session-btn
EndSessionClick ==
    /\ screen = "result"
    /\ ResetGameState
    /\ screen' = "welcome"
    /\ UNCHANGED <<result, currentNpc, submitDisabled, hintDisabled,
                   optionsShown, hintError>>
    /\ UNCHANGED <<statVars, lvVars, callVars, npcVars>>

NextGame ==
    \/ StartGame
    \/ BackToWelcome
    \/ SelectNpc
    \/ StartGameSession
    \/ \E t \in TasksOf({"greeting"}) : GreetingTypes(t)
    \/ ContinueClick
    \/ SkipClick
    \/ GameHintClick
    \/ \E t \in TasksOf({"fetch"}), outcome \in RemoteOutcomes :
           RemoteResponds(t, outcome)
    \/ \E t \in TasksOf({"hint"}) : HintTypes(t)
    \/ \E optionId \in GameOptions : SelectOption(optionId)
    \/ SubmitClick
    \/ TimerTick
    \/ RevealDone
    \/ \E t \in TasksOf({"response"}) : ResponseTypes(t)
    \/ \E t \in TasksOf({"shown"}) : ResponseShown(t)
    \/ \E t \in TasksOf({"resultDelay"}) : ShowResult(t)
    \/ NextQuestionClick
    \/ EndSessionClick

SpecGame == Init /\ [][NextGame]_vars

----------------------------------------------------------------------------
(* Hints while one question is played *)

\* the greeting has been presented and has just loaded the question
InitHint ==
    /\ currentQuestion = gameQuestion
    /\ selectedAnswer = NoAnswer
    /\ timeRemaining = gameQuestion.timeLimit
    /\ hintsUsed = 0
    /\ questionsAnswered = 0
    /\ correctAnswers = 0
    /\ result = Null
    /\ LevelDefaults
    /\ screen = "game"
    /\ currentNpc = "alex_ceo"
    /\ questionTimer = TRUE
    /\ submitDisabled = TRUE
    /\ hintDisabled = FALSE
    /\ optionsShown = TRUE
    /\ hintError = FALSE
    /\ isTyping = FALSE
    /\ dialogueText = Msg("greeting", GreetingLines)
    /\ tasks = EmptyBag
    /\ waiters = <<>>
    /\ resolverCalls = <<>>

NextHint ==
    \/ HintClick
    \/ \E t \in TasksOf({"fetch"}), outcome \in RemoteOutcomes :
           RemoteResponds(t, outcome)
    \/ \E t \in TasksOf({"hint"}) : HintTypes(t)
    \/ ContinueClick
    \/ SkipClick

SpecHint == InitHint /\ [][NextHint]_vars

\* timers fire; the remote service and the player owe nothing
SpecHintFair ==
    /\ SpecHint
    /\ WF_vars(\E t \in TasksOf({"hint"}) : HintTypes(t))

----------------------------------------------------------------------------
(* The texts of generateEnhancedFallbackHint.  In the session above a hint  *)
(* is known by its level only; here the tables are kept: a sentence is a    *)
(* sequence of tokens, a table entry is one token named by its keys.        *)

\* keys of this.npcData
NpcIds == {"alex_ceo", "sarah_analyst", "mike_security", "jenny_developer"}

\* keys of enhancedHintTemplates
HintCategories == {"EC2", "S3", "LAMBDA", "RDS", "VPC"}

\* a question without category
NoCategory == ""

\* categories of questions: the two of the question bank, other spellings, one
\* without table and none
CategoryInputs ==
    {"EC2", "S3", "ec2", "Lambda", "rds", "VPC", "IAM", NoCategory}

\* String.prototype.toUpperCase on the categories above
toUpperCase(str) ==
    CASE str = "ec2" -> "EC2"
      [] str = "Lambda" -> "LAMBDA"
      [] str = "rds" -> "RDS"
      [] OTHER -> str

\* questionData.category?.toUpperCase() || 'GENERAL'
categoryOf(questionData) ==
    IF questionData.category = NoCategory THEN "GENERAL"
    ELSE toUpperCase(questionData.category)

\* enhancedHintTemplates[category][hintLevel][key] and
\* defaultHints[hintLevel][key], key being base or an npc id
enhancedHintTemplates(category, hintLevel, key) ==
    <<<<category, hintLevel, key>>>>

defaultHints(hintLevel, key) == <<<<"default", hintLevel, key>>>>

\* the {hint} placeholder of a hintStyles entry
Placeholder == <<"{hint}">>

\* npcData[npcId].hintStyles: three sentences with a placeholder each
hintStyles(npcId) ==
    {<<<<"style", npcId, j>>, Placeholder, <<"end", npcId, j>>>> : j \in 1..3}

\* hintStyle.replace('{hint}', baseHint)
RECURSIVE replaceHint(_, _)
replaceHint(hintStyle, baseHint) ==
    IF hintStyle = <<>> THEN <<>>
    ELSE IF Head(hintStyle) = Placeholder THEN baseHint \o Tail(hintStyle)
    ELSE <<Head(hintStyle)>> \o replaceHint(Tail(hintStyle), baseHint)

\* generateEnhancedFallbackHint with this.currentNpc = npcId, for a hintLevel
\* in 1..3; every table entry has a sentence for each of the four NPCs
enhancedFallbackHintOf(questionData, npcId, hintLevel) ==
    LET category == categoryOf(questionData)
        base == IF category \in HintCategories
                THEN enhancedHintTemplates(category, hintLevel, "base")
                ELSE defaultHints(hintLevel, "base")
        npcSpecificHint == IF category \in HintCategories
                           THEN enhancedHintTemplates(category, hintLevel, npcId)
                           ELSE defaultHints(hintLevel, npcId)
    IN  [hint |-> base, message |-> npcSpecificHint, hintLevel |-> hintLevel,
         source |-> "enhanced_fallback", npcId |-> npcId, category |-> category]

\* a question of some category is played with some NPC and hintsUsed hints
\* have been taken
InitFallback ==
    /\ currentQuestion \in {[gameQuestion EXCEPT !.category = c] :
                               c \in CategoryInputs}
    /\ selectedAnswer = NoAnswer
    /\ timeRemaining = gameQuestion.timeLimit
    /\ hintsUsed \in 0..2
    /\ questionsAnswered = 0
    /\ correctAnswers = 0
    /\ result = Null
    /\ LevelDefaults
    /\ screen = "game"
    /\ currentNpc \in NpcIds
    /\ questionTimer = TRUE
    /\ submitDisabled = TRUE
    /\ hintDisabled = FALSE
    /\ optionsShown = TRUE
    /\ hintError = FALSE
    /\ isTyping = FALSE
    /\ dialogueText = Msg("greeting", GreetingLines)
    /\ tasks = EmptyBag
    /\ waiters = <<>>
    /\ resolverCalls = <<>>

\* the catch block of requestNpcHint builds the fallback hint
GenerateFallback ==
    /\ op = "constructor"
    /\ op' = "generateEnhancedFallbackHint"
    /\ args' = [questionData |-> currentQuestion,
                hintLevel |-> hintLevelOf(hintsUsed)]
    /\ ret' = enhancedFallbackHintOf(currentQuestion, currentNpc,
                                     hintLevelOf(hintsUsed))
    /\ UNCHANGED <<gmVars, statVars, lvVars, calls, pageVars, npcVars>>

NextFallback == GenerateFallback

SpecFallback == InitFallback /\ [][NextFallback]_vars

----------------------------------------------------------------------------
(* One question played: options, countdown, hints and the submission *)

NextPlay ==
    \/ \E optionId \in GameOptions : SelectOption(optionId)
    \/ SubmitClick
    \/ TimerTick
    \/ RevealDone
    \/ \E t \in TasksOf({"response"}) : ResponseTypes(t)
    \/ \E t \in TasksOf({"shown"}) : ResponseShown(t)
    \/ \E t \in TasksOf({"resultDelay"}) : ShowResult(t)
    \/ GameHintClick
    \/ \E t \in TasksOf({"fetch"}), outcome \in RemoteOutcomes :
           RemoteResponds(t, outcome)
    \/ \E t \in TasksOf({"hint"}) : HintTypes(t)
    \/ ContinueClick
    \/ SkipClick

SpecPlay == InitHint /\ [][NextPlay]_vars

\* the same question played without hints
NextAnswer ==
    \/ \E optionId \in GameOptions : SelectOption(optionId)
    \/ SubmitClick
    \/ TimerTick
    \/ RevealDone
    \/ \E t \in TasksOf({"response"}) : ResponseTypes(t)
    \/ \E t \in TasksOf({"shown"}) : ResponseShown(t)
    \/ \E t \in TasksOf({"resultDelay"}) : ShowResult(t)
    \/ SkipClick

SpecAnswer == InitHint /\ [][NextAnswer]_vars

\* timers fire; the remote service and the player owe nothing
SpecPlayFair ==
    /\ SpecPlay
    /\ WF_vars(TimerTick)
    /\ WF_vars(RevealDone)
    /\ WF_vars(\E t \in TasksOf({"response"}) : ResponseTypes(t))
    /\ WF_vars(\E t \in TasksOf({"shown"}) : ResponseShown(t))
    /\ WF_vars(\E t \in TasksOf({"resultDelay"}) : ShowResult(t))
    /\ WF_vars(\E t \in TasksOf({"hint"}) : HintTypes(t))

----------------------------------------------------------------------------
(* The greeting: from the welcome screen to the first question *)

NextGreeting ==
    \/ StartGame
    \/ GreetingSelectNpc
    \/ StartGameSession
    \/ \E t \in TasksOf({"greeting"}) : GreetingTypes(t)
    \/ ContinueClick
    \/ SkipClick

SpecGreeting == Init /\ [][NextGreeting]_vars

\* timers fire and the player clicks continue; nobody owes a skip
SpecGreetingFair ==
    /\ SpecGreeting
    /\ WF_vars(StartGameSession)
    /\ WF_vars(\E t \in TasksOf({"greeting"}) : GreetingTypes(t))
    /\ WF_vars(ContinueClick)

----------------------------------------------------------------------------
(* LevelSystem when localStorage.setItem raises in saveUserProgress *)

\* the exception that leaves addScore in place of its return value
Thrown == [thrown |-> "QuotaExceededError"]

\* a field that addScore assigned before it called saveUserProgress
writtenBeforeSave_notYet(before, after) == before

writtenBeforeSave(before, after) == after

\* addScore whose saveUserProgress raises: saveUserProgress is the last
\* statement that writes, setItem stored nothing and no value is returned
AddScoreSaveRaises(score, questionResult) ==
    /\ calls < MaxCalls
    /\ LET total == totalScore + score
           exp == expAfter(currentExp, score)
           streak == streakAfter(streakCount, questionResult)
           maxS == maxStreakAfter(maxStreak, streak, questionResult)
           newLevel == calculateLevel(exp)
           leveledUp == leveledUpOf(newLevel, currentLevel)
           level == levelAfter(currentLevel, newLevel, leveledUp)
           stats == getPlayerStats(correctAnswers, questionsAnswered, total,
                                   maxS, streak)
           checked == checkAchievements(achievements, stats, questionResult)
       IN  /\ totalScore' = total
           /\ currentExp' = exp
           /\ streakCount' = streak
           /\ maxStreak' = maxS
           /\ currentLevel' = level
           /\ achievements' =
                  writtenBeforeSave(achievements, checked.achievements)
    /\ storage' = storage
    /\ ret' = Thrown
    /\ op' = "addScore"
    /\ args' = [score |-> score, questionResult |-> questionResult]
    /\ calls' = calls + 1
    /\ UNCHANGED <<gmVars, statVars, pageVars, npcVars>>

NextPersist ==
    \/ \E in \in AddScoreInputs : AddScore(in.score, in.questionResult)
    \/ \E in \in AddScoreInputs : AddScoreSaveRaises(in.score, in.questionResult)
    \/ ResetProgress
    \/ LoadUserProgress
    \/ \E isCorrect \in BOOLEAN : HandleAnswerResult(isCorrect)

SpecPersist == Init /\ [][NextPersist]_vars

----------------------------------------------------------------------------
(* A session in which every question drawn is of one category *)

\* the two questions of generateMockQuestion
mockQuestions ==
    {[points |-> 100, difficulty |-> "medium", timeLimit |-> 60,
      correctAnswer |-> "B", category |-> "EC2"],
     [points |-> 75, difficulty |-> "easy", timeLimit |-> 45,
      correctAnswer |-> "B", category |-> "S3"]}

\* the question is on screen after the greeting; generateMockQuestion draws
\* the same one every time
InitCategory ==
    /\ currentQuestion \in mockQuestions
    /\ selectedAnswer = NoAnswer
    /\ timeRemaining = currentQuestion.timeLimit
    /\ hintsUsed = 0
    /\ questionsAnswered = 0
    /\ correctAnswers = 0
    /\ result = Null
    /\ LevelDefaults
    /\ screen = "game"
    /\ currentNpc = "alex_ceo"
    /\ questionTimer = TRUE
    /\ submitDisabled = TRUE
    /\ hintDisabled = FALSE
    /\ optionsShown = TRUE
    /\ hintError = FALSE
    /\ isTyping = FALSE
    /\ dialogueText = Msg("greeting", GreetingLines)
    /\ tasks = EmptyBag
    /\ waiters = <<>>
    /\ resolverCalls = <<>>

\* the statistics update of handleAnswerResult for an answer to the question
CategoryAnswer(isCorrect) ==
    HandleAnswerResultUpTo(isCorrect, MaxCategoryAnswered)

\* addScore with the result of an answer to the question, given with 20
\* seconds left and without hints
CategoryAddScore(selected) ==
    LET r == calculateScore(currentQuestion, selected, 20, 0)
    IN  AddScoreUpTo(r.totalScore, r, MaxCategoryCalls)

NextCategory ==
    \/ \E isCorrect \in BOOLEAN : CategoryAnswer(isCorrect)
    \/ \E selected \in GameOptions : CategoryAddScore(selected)

SpecCategory == InitCategory /\ [][NextCategory]_vars

----------------------------------------------------------------------------
(* The result of one submission applied by addScore *)

\* a question of generateMockQuestion is on screen, an option is selected,
\* the timer has run down to timeRemaining and hintsUsed hints were taken
InitSpeed ==
    /\ currentQuestion \in mockQuestions
    /\ selectedAnswer \in GameOptions
    /\ timeRemaining \in 0..currentQuestion.timeLimit
    /\ hintsUsed \in 0..MaxHints
    /\ questionsAnswered = 0
    /\ correctAnswers = 0
    /\ result = Null
    /\ LevelDefaults
    /\ PageDefaults

\* addScore(result.totalScore, result), once for the submission
ApplyResult ==
    /\ result # Null
    /\ AddScoreUpTo(result.totalScore, result, 1)

NextSpeed ==
    \/ CalculateScore
    \/ ApplyResult

SpecSpeed == InitSpeed /\ [][NextSpeed]_vars

----------------------------------------------------------------------------
(* One question played, the remote hint service answering before the answer *)
(* is submitted or after the score is computed                              *)

\* the remote call settles, but not within the 600 ms of revealAnswers
RemoteRespondsOutsideReveal(t, outcome) ==
    /\ CountIn(tasks, {"reveal"}) = 0
    /\ RemoteResponds(t, outcome)

NextPenalty ==
    \/ \E optionId \in GameOptions : SelectOption(optionId)
    \/ SubmitClick
    \/ TimerTick
    \/ RevealDone
    \/ \E t \in TasksOf({"response"}) : ResponseTypes(t)
    \/ \E t \in TasksOf({"shown"}) : ResponseShown(t)
    \/ \E t \in TasksOf({"resultDelay"}) : ShowResult(t)
    \/ GameHintClick
    \/ \E t \in TasksOf({"fetch"}), outcome \in RemoteOutcomes :
           RemoteRespondsOutsideReveal(t, outcome)
    \/ \E t \in TasksOf({"hint"}) : HintTypes(t)
    \/ ContinueClick
    \/ SkipClick

SpecPenalty == InitHint /\ [][NextPenalty]_vars

----------------------------------------------------------------------------
(* One question played, with more than one submission followed *)

\* submitAnswer, the click handler of submit-answer-btn, explored up to
\* MaxSubmissions submissions of the question
SubmitAgainClick ==
    /\ screen = "game"
    /\ ~submitDisabled
    /\ IF selectedAnswer = NoAnswer \/ currentQuestion = Null
       THEN UNCHANGED <<questionTimer, submitDisabled, tasks>>
       ELSE /\ questionsAnswered + SubmitsInFlight < MaxSubmissions
            /\ questionTimer' = FALSE
            /\ submitDisabled' = TRUE
            /\ tasks' = AddTask(tasks, [kind |-> "reveal"])
    /\ UNCHANGED <<gmVars, statVars, lvVars, callVars>>
    /\ UNCHANGED <<screen, currentNpc, hintDisabled, optionsShown, hintError>>
    /\ UNCHANGED <<isTyping, dialogueText, waiters, resolverCalls>>

NextResubmit ==
    \/ \E optionId \in GameOptions : SelectOption(optionId)
    \/ SubmitAgainClick
    \/ TimerTick
    \/ RevealDone
    \/ \E t \in TasksOf({"response"}) : ResponseTypes(t)
    \/ \E t \in TasksOf({"shown"}) : ResponseShown(t)
    \/ \E t \in TasksOf({"resultDelay"}) : ShowResult(t)
    \/ SkipClick

SpecResubmit == InitHint /\ [][NextResubmit]_vars

----------------------------------------------------------------------------
(* The countdown over questions: one question answered, then the next one *)
(* or the end of the session                                               *)

NextTimer ==
    \/ \E optionId \in GameOptions : SelectOption(optionId)
    \/ SubmitClick
    \/ TimerTick
    \/ RevealDone
    \/ \E t \in TasksOf({"response"}) : ResponseTypes(t)
    \/ \E t \in TasksOf({"shown"}) : ResponseShown(t)
    \/ \E t \in TasksOf({"resultDelay"}) : ShowResult(t)
    \/ NextQuestionClick
    \/ EndSessionClick
    \/ SkipClick

SpecTimer == InitHint /\ [][NextTimer]_vars

----------------------------------------------------------------------------
(* LevelSystem.getExpProgress on a progress loaded by the constructor *)

\* levelThresholds[this.currentLevel], or the last threshold at the top level
\* (the array of the code is indexed from 0, the sequence here from 1)
getExpForNextLevel(level) ==
    IF level >= Len(levelThresholds)
    THEN levelThresholds[Len(levelThresholds)]
    ELSE levelThresholds[level + 1]

\* getExpProgress without its percentage
getExpProgress(level, exp) ==
    LET currentLevelExp == IF level > 1 THEN levelThresholds[level - 1] ELSE 0
        nextLevelExp == getExpForNextLevel(level)
    IN  [current |-> exp - currentLevelExp,
         required |-> nextLevelExp - currentLevelExp]

\* experience values of a level: its threshold, one more, the middle of the
\* level and the last value before the next threshold; 6000 points past the
\* threshold at the top level
ExpSamples(level) ==
    LET low == levelThresholds[level]
        high == IF level < Len(levelThresholds)
                THEN levelThresholds[level + 1]
                ELSE low + 6000
    IN  {low, low + 1, (low + high) \div 2, high - 1}

\* the constructor has loaded a saved progress of some level
InitExp ==
    /\ currentQuestion = Null
    /\ selectedAnswer = NoAnswer
    /\ timeRemaining = 0
    /\ hintsUsed = 0
    /\ questionsAnswered = 0
    /\ correctAnswers = 0
    /\ result = Null
    /\ currentLevel \in 1..Len(levelThresholds)
    /\ currentExp \in ExpSamples(currentLevel)
    /\ totalScore = currentExp
    /\ achievements = <<>>
    /\ streakCount = 0
    /\ maxStreak = 0
    /\ storage = progressData(currentLevel, currentExp, totalScore,
                              achievements, streakCount, maxStreak)
    /\ op = "constructor"
    /\ args = Null
    /\ ret = Null
    /\ calls = 0
    /\ PageDefaults

GetExpProgress ==
    /\ op = "constructor"
    /\ op' = "getExpProgress"
    /\ args' = Null
    /\ ret' = getExpProgress(currentLevel, currentExp)
    /\ UNCHANGED <<calls, gmVars, statVars, lvVars, pageVars, npcVars>>

NextExp == GetExpProgress

SpecExp == InitExp /\ [][NextExp]_vars

----------------------------------------------------------------------------
(* Properties of calculateScore, checked under SpecScore *)

\* floor(basePoints * multiplier) of a result
FloorBaseTimesMultiplier(r) == (r.baseScore * r.difficultyMultiplier2) \div 2

\* the multiplier table easy 1 / medium 1.5 / hard 2, doubled
ClaimedMultiplier2 ==
    [d \in Difficulties |->
        IF d = "easy" THEN 2 ELSE IF d = "medium" THEN 3 ELSE 4]

\* C1: for every question and every submission with timeRemaining in
\* 0..timeLimit and hintsUsed >= 0, the total score returned by
\* calculateScore is at least 0 and at most floor(basePoints * multiplier) + 50.
C1_TotalScoreInRange ==
    result # Null =>
        /\ 0 <= result.totalScore
        /\ result.totalScore <= FloorBaseTimesMultiplier(result) + 50

\* C2: for a correct answer, timeBonus = floor(max(0, remaining / timeLimit)
\* * 50), hintPenalty = 10 * hintsUsed, and totalScore =
\* max(0, floor(basePoints * multiplier + timeBonus) - hintPenalty) with
\* multiplier 1 / 1.5 / 2 for easy / medium / hard.
C2_CorrectScoreFormula ==
    (result # Null /\ result.isCorrect) =>
        LET m2 == ClaimedMultiplier2[currentQuestion.difficulty]
            bonus == (Max(0, timeRemaining) * 50) \div currentQuestion.timeLimit
        IN  /\ result.timeBonus = bonus
            /\ result.hintPenalty = 10 * hintsUsed
            /\ result.totalScore =
                   Max(0, (currentQuestion.points * m2 + 2 * bonus) \div 2
                            - 10 * hintsUsed)

\* C3: whenever the selected option differs from the question's correct
\* option, calculateScore returns totalScore = 0, whatever hintsUsed and the
\* remaining time are.
C3_IncorrectScoresZero ==
    (result # Null /\ selectedAnswer # currentQuestion.correctAnswer) =>
        result.totalScore = 0

\* a wrong answer was scored with hints taken and time left on a question
\* worth points
C3_Witness ==
    /\ result # Null
    /\ selectedAnswer # currentQuestion.correctAnswer
    /\ hintsUsed > 0
    /\ timeRemaining > 0
    /\ currentQuestion.points > 0
    /\ result.totalScore = 0

----------------------------------------------------------------------------
(* Properties of LevelSystem, checked under SpecLevel *)

\* a step that is one call of addScore
AddScoreStep == calls' = calls + 1

\* the arguments of the call say the answer was correct
CorrectCall(a) == a.questionResult # Null /\ a.questionResult.isCorrect

\* indices of the thresholds that exp has reached
ReachedLevels(exp) ==
    {i \in 1..Len(levelThresholds) : exp >= levelThresholds[i]}

SetMax(S) == CHOOSE m \in S : \A x \in S : x <= m

\* greatest 1-based index whose threshold exp has reached (1 if there is none)
GreatestLevel(exp) ==
    IF ReachedLevels(exp) = {} THEN 1 ELSE SetMax(ReachedLevels(exp))

\* C4: across any sequence of addScore calls from the default state,
\* currentLevel never decreases from one call to the next and is always in
\* 1..20, also when experience is far beyond the top threshold 19000.
C4_LevelMonotoneAndBounded ==
    [][/\ AddScoreStep => currentLevel' >= currentLevel
       /\ currentLevel' \in 1..20]_vars

\* addScore ran with experience at twice the top threshold or more
C4_Witness ==
    /\ op = "addScore"
    /\ currentExp >= 2 * levelThresholds[20]
    /\ currentLevel = 20

\* C5: after every addScore call, currentLevel equals the greatest 1-based
\* index i with currentExp >= levelThresholds[i-1] in the 20-entry table.
C5_LevelIsGreatestReached ==
    (op = "addScore" /\ ReachedLevels(currentExp) # {}) =>
        currentLevel = SetMax(ReachedLevels(currentExp))

\* C6: addScore returns leveledUp = TRUE exactly when the level recomputed
\* from the updated experience is strictly greater than the level held before
\* the call, and newLevel is the level held after the call.
C6_LeveledUpIffLevelRose ==
    [][AddScoreStep =>
          /\ ret'.leveledUp = (GreatestLevel(currentExp') > currentLevel)
          /\ ret'.newLevel = currentLevel']_vars

\* experience 95 at level 1 plus a score of 10: experience 105, level 2,
\* leveledUp true
C6_Witness ==
    /\ op = "addScore"
    /\ args.score = 10
    /\ currentExp = 105
    /\ currentLevel = 2
    /\ ret.leveledUp
    /\ ret.newLevel = 2

\* C7: across addScore calls maxStreak never decreases; a call for a correct
\* answer increases streakCount by exactly 1 and sets maxStreak to
\* max(maxStreak, streakCount); a call for an incorrect answer leaves
\* streakCount at 0.
C7_StreakRules ==
    [][AddScoreStep =>
          /\ maxStreak' >= maxStreak
          /\ CorrectCall(args') =>
                 /\ streakCount' = streakCount + 1
                 /\ maxStreak' = Max(maxStreak, streakCount')
          /\ ~CorrectCall(args') => streakCount' = 0]_vars

\* a wrong answer ended a streak of two; maxStreak kept it
C7_Witness ==
    /\ op = "addScore"
    /\ args.questionResult # Null
    /\ ~args.questionResult.isCorrect
    /\ streakCount = 0
    /\ maxStreak = 2

\* C8: each addScore call adds the same amount to totalScore and to
\* currentExp, so totalScore = currentExp in every reachable state.
C8_ScoreEqualsExp ==
    /\ [](totalScore = currentExp)
    /\ [][AddScoreStep =>
             /\ totalScore' = totalScore + args'.score
             /\ currentExp' = currentExp + args'.score]_vars

\* a negative score was added after positive ones
C8_Witness ==
    /\ op = "addScore"
    /\ args.score < 0
    /\ totalScore > 0
    /\ totalScore = currentExp

\* every unlocked id is still unlocked after the step
UnlockedKept == Range(achievements) \subseteq Range(achievements')

\* in the current state, for every result: checkAchievements reports no id
\* that is already unlocked, and a second call with the same statistics and
\* result reports nothing
CheckIsIdempotent ==
    \A q \in SampleResults \cup {Null} :
        LET stats == getPlayerStats(correctAnswers, questionsAnswered,
                                    totalScore, maxStreak, streakCount)
            first == checkAchievements(achievements, stats, q)
            second == checkAchievements(first.achievements, stats, q)
        IN  /\ Range(first.newAchievements) \cap Range(achievements) = {}
            /\ second.newAchievements = <<>>
            /\ second.achievements = first.achievements

C10_ReturnsNewlyUnlocked ==
    [][AddScoreStep =>
          Range(ret'.newAchievements)
              = Range(achievements') \ Range(achievements)]_vars

\* C11: when a player with streakCount = 4 and streak_5 not yet unlocked has a
\* correct answer applied by addScore, maxStreak becomes at least 5 and
\* streak_5 is in the achievement list returned by that call, whatever else
\* unlocks in the same call.
C11_FifthCorrectReturnsStreak5 ==
    [][(/\ AddScoreStep
        /\ streakCount = 4
        /\ "streak_5" \notin Range(achievements)
        /\ CorrectCall(args'))
          => /\ maxStreak' >= 5
             /\ "streak_5" \in Range(ret'.newAchievements)]_vars

----------------------------------------------------------------------------
(* Properties of the hints, checked under SpecHint and SpecHintFair *)

\* typeMessage runs that have not returned
TypingCount == CountIn(tasks, {"greeting", "hint", "response"})

\* the hints that pending resolutions have presented and will return
HeldHints ==
    {t.hint : t \in TasksOf({"hint"})}
        \cup {waiters[i].hint : i \in {j \in 1..Len(waiters) :
                                           waiters[j].kind = "hint"}}

\* C12: for each loaded question at most 3 hint resolutions are started,
\* under every interleaving of hint requests with resolutions that are still
\* pending; a 4th request does not reach the resolver.
C12_AtMostThreeResolutions == Len(resolverCalls) <= 3

\* C13: in every reachable state at most one typeMessage run is in progress.
C13_OneTypedEffect == TypingCount <= 1

\* C14: a requestHint issued while a typed-text effect is active starts no
\* hint resolution and leaves hintsUsed and the running effect alone.
C14_BusyRejectsHint ==
    [][TypingCount > 0 => Len(resolverCalls') <= Len(resolverCalls)]_vars

\* C15: whatever the remote call comes to (network error, non-success status,
\* unparsable body, body without hint and message), requestNpcHint for a
\* known NPC and a hintLevel in 1..3 raises nothing to requestHint and the
\* hint it presents and returns has a non-empty message.
C15_ResolverAlwaysAnswers ==
    /\ ~hintError
    /\ \A level \in Range(resolverCalls) : level \in 1..3
    /\ \A h \in HeldHints :
           /\ "message" \in DOMAIN h
           /\ Len(h.message) > 0

\* a resolution whose remote call failed has presented its hint and waits for
\* continue before it returns it
C15_Witness ==
    \E i \in 1..Len(waiters) :
        /\ waiters[i].kind = "hint"
        /\ waiters[i].hint.source = "enhanced_fallback"
        /\ dialogueText = waiters[i].hint.message

\* C16: the hint returned by the resolver carries source remote or fallback,
\* and fallback when the remote call failed.
C16_SourceRemoteOrFallback ==
    \A h \in HeldHints :
        /\ h.source \in {"remote", "fallback"}
        /\ h.message = Msg("fallback", h.hintLevel) => h.source = "fallback"

\* C17: a hint resolution whose remote call never completes does not stay
\* pending forever: the remote call is given up and the fallback presented.
C17_HungRemoteGivenUp ==
    (TasksOf({"fetch"}) # {}) ~> (TasksOf({"fetch"}) = {})

----------------------------------------------------------------------------
(* Properties of the session, checked under SpecGame and SpecLevel *)

\* the results of accepted submissions whose NPC reaction has been started
ReactedResults ==
    {t.result : t \in TasksOf({"response", "shown", "resultDelay"})}

\* C18: every accepted answer submission computes a score result and applies
\* it to the progression state by one addScore with that result before the
\* NPC reaction is presented, so that totalScore has grown by the result's
\* total points.
C18_SubmissionAppliesScore ==
    \A r \in ReactedResults :
        /\ op = "addScore"
        /\ args.questionResult = r
        /\ totalScore >= r.totalScore

\* C19: addScore with a malformed (missing) result fails with an
\* InvalidScoreInput error and leaves totalScore, experience, level,
\* streakCount, maxStreak and achievements unchanged.
C19_InvalidInputRejected ==
    [][(AddScoreStep /\ args'.questionResult = Null)
          => /\ "error" \in DOMAIN ret'
             /\ UNCHANGED <<totalScore, currentExp, currentLevel, streakCount,
                            maxStreak, achievements>>]_vars

\* C20: session end immediately halts an in-progress typed-text effect: no
\* typeMessage run is left to deliver characters or the rest of its line.
C20_SessionEndHaltsTyping ==
    [][(screen = "result" /\ screen' = "welcome") => TypingCount' = 0]_vars

----------------------------------------------------------------------------
(* Properties of the achievements, checked under SpecLevel *)

\* the achievements whose unlock rule is stated
StatedIds ==
    {"first_correct", "streak_5", "streak_10", "perfect_score", "speed_demon",
     "accuracy_master", "persistent_learner", "high_scorer"}

\* the stated unlock rule of an achievement, on the counts of correct and
\* answered questions, the total score, the longest streak and the result
StatedRule(id, correct, answered, total, maxS, r) ==
    CASE id = "first_correct" -> correct >= 1
      [] id = "streak_5" -> maxS >= 5
      [] id = "streak_10" -> maxS >= 10
      [] id = "perfect_score" ->
            r # Null /\ r.isCorrect /\ r.hintPenalty = 0 /\ r.timeBonus > 0
      [] id = "speed_demon" -> r # Null /\ r.isCorrect /\ r.timeBonus >= 40
      [] id = "accuracy_master" -> answered >= 10 /\ 10 * correct >= 9 * answered
      [] id = "persistent_learner" -> answered >= 50
      [] id = "high_scorer" -> total >= 5000

\* the least the counts can be once the answer of the call is included
CountWithAnswer(count, included) == Max(count, IF included THEN 1 ELSE 0)

\* C21: after every addScore call, every achievement whose rule holds on the
\* state after the score was added and on the result of the call is unlocked,
\* with the rules correctAnswers >= 1, maxStreak >= 5, maxStreak >= 10,
\* correct without hint penalty and with a time bonus, correct with a time
\* bonus of 40 or more, 10 answers at 90% accuracy, 50 answers, and
\* totalScore >= 5000, where the counts of answered and correct questions
\* include the answer of the call.
C21_RulesHoldOnPostScoreState ==
    [][AddScoreStep =>
          LET r == args'.questionResult
              correct == CountWithAnswer(correctAnswers', CorrectCall(args'))
              answered == CountWithAnswer(questionsAnswered', r # Null)
          IN  \A id \in StatedIds :
                  StatedRule(id, correct, answered, totalScore', maxStreak', r)
                      => id \in Range(achievements')]_vars

NoDuplicates(s) == \A i, j \in 1..Len(s) : s[i] = s[j] => i = j

\* position of an id in the declaration order of achievementDefinitions
DeclarationIndex(id) ==
    CHOOSE i \in 1..Len(achievementOrder) : achievementOrder[i] = id

\* the list after the step is the list before it followed by ids in strictly
\* increasing declaration order
AppendedInDeclarationOrder ==
    /\ SubSeq(achievements', 1, Len(achievements)) = achievements
    /\ \A i, j \in (Len(achievements) + 1)..Len(achievements') :
           i < j => DeclarationIndex(achievements'[i])
                        < DeclarationIndex(achievements'[j])

\* C22: in every reachable state the unlocked list holds no id twice, and the
\* ids unlocked in one call are appended to it in the declaration order of the
\* achievement definitions.
C22_NoDuplicatesDeclarationOrder ==
    /\ [](/\ NoDuplicates(achievements)
          /\ Range(achievements) \subseteq Range(achievementOrder))
    /\ [][Len(achievements') >= Len(achievements)
              => AppendedInDeclarationOrder]_vars

\* one call unlocked two ids at once, and a later call, which found both in
\* the list, added an id declared before them
C22_Witness ==
    /\ op = "addScore"
    /\ achievements = <<"perfect_score", "speed_demon", "first_correct">>
    /\ condition("perfect_score",
                 getPlayerStats(correctAnswers, questionsAnswered, totalScore,
                                maxStreak, streakCount),
                 args.questionResult)

----------------------------------------------------------------------------
(* Properties of the dialogue, checked under SpecHint, SpecGreeting and     *)
(* SpecGreetingFair                                                        *)

\* the suspended typeMessage runs
TypingTasksNow == TasksOf({"greeting", "hint", "response"})

\* the message a suspended typeMessage run is typing
MessageOfTask(t) ==
    CASE t.kind = "greeting" -> Msg("greeting", t.i)
      [] t.kind = "hint" -> messageOf(t.hint)
      [] t.kind = "response" ->
            Msg("response", IF t.result.isCorrect THEN 1 ELSE 0)

\* the step resumes the typeMessage run t
Resumed(t) == CopiesIn(t, tasks') < CopiesIn(t, tasks)

\* the step leaves the run t typing, one character further
RevealedOneMore(t) ==
    CopiesIn([t EXCEPT !.k = t.k + 1], tasks')
        > CopiesIn([t EXCEPT !.k = t.k + 1], tasks)

\* a typed effect is active and skip has cleared isTyping
SkippedWhileTyping == ~isTyping /\ TypingTasksNow # {}

\* C23: a skip issued while a typed effect is active ends that effect with the
\* displayed text equal to the complete message, without revealing the
\* remaining characters one per time slice: the skip stays in force until the
\* effect resumes, and the effect then finishes and hands over to the next
\* step.
C23_SkipCompletesEffect ==
    [][SkippedWhileTyping =>
          /\ ~isTyping'
          /\ \A t \in TypingTasksNow :
                 Resumed(t) => /\ dialogueText' = MessageOfTask(t)
                               /\ ~RevealedOneMore(t)]_vars

\* C24: a skip issued while no typed effect is active changes nothing
\* observable (isTyping, its only write, is already false), and the next typed
\* effect that starts afterwards starts armed and is revealed character by
\* character as long as it stays armed: it is not cut short by the earlier
\* skip.
C24_IdleSkipChangesNothing ==
    /\ [](TypingTasksNow = {} => ~isTyping)
    /\ [][(TypingTasksNow = {} /\ TypingTasksNow' # {})
              => (isTyping' /\ Len(dialogueText') = 1)]_vars
    /\ [][\A t \in TypingTasksNow :
              (isTyping /\ Resumed(t) /\ t.k < Len(MessageOfTask(t)))
                  => /\ RevealedOneMore(t)
                     /\ dialogueText'
                            = Append(dialogueText, MessageOfTask(t)[t.k + 1])]_vars

\* a hint that started while nothing was typed has been revealed character by
\* character up to its last character and is still armed
C24_Witness ==
    /\ isTyping
    /\ TypingCount = 1
    /\ \E t \in TasksOf({"hint"}) :
           /\ t.k = MsgLen
           /\ dialogueText = messageOf(t.hint)

\* the step starts the typeMessage of greeting line n
StartsLine(n) ==
    CopiesIn([kind |-> "greeting", i |-> n, k |-> 1], tasks')
        > CopiesIn([kind |-> "greeting", i |-> n, k |-> 1], tasks)

\* greeting line n is on display in full and a showGreeting waits for continue
\* after it, while no greeting line is being typed
LinePresented(n) ==
    /\ TasksOf({"greeting"}) = {}
    /\ dialogueText = Msg("greeting", n)
    /\ \E j \in 1..Len(waiters) :
           waiters[j].kind = "greeting" /\ waiters[j].i = n

\* C25: the greeting lines are presented in their declared order: line n + 1
\* starts only in a step taken when line n has been presented completely and
\* waits for continue; a continue sent while a line is still being typed
\* starts no line.
C25_GreetingAdvancesOnContinue ==
    [][\A n \in 1..(GreetingLines - 1) :
           StartsLine(n + 1) => LinePresented(n)]_vars

\* a greeting line is being typed or waits for continue
GreetingLinePending ==
    TasksOf({"greeting"}) # {} \/ Len(WaitersOf("greeting")) > 0

\* C26: after startNpcDialogue the question is loaded and the countdown
\* started only when the last greeting line has been presented completely;
\* no question is loaded and no timer runs while a greeting line is pending;
\* and with the continue clicks given, the question is eventually loaded.
C26_QuestionAfterGreeting ==
    /\ [](GreetingLinePending => (currentQuestion = Null /\ ~questionTimer))
    /\ [][(currentQuestion = Null /\ currentQuestion' # Null)
              => dialogueText' = Msg("greeting", GreetingLines)]_vars
    /\ (TasksOf({"start"}) # {}) ~> (currentQuestion # Null /\ questionTimer)

----------------------------------------------------------------------------
(* Properties of the countdown, checked under SpecAnswer and SpecPlayFair *)

\* the step is the tick of the countdown that reaches zero
TimeUpStep ==
    /\ questionTimer
    /\ timeRemaining' = timeRemaining - 1
    /\ timeRemaining' <= 0

\* the step is the end of the sleep of revealAnswers, where submitAnswer
\* computes the score
ScoreStep ==
    CopiesIn([kind |-> "reveal"], tasks') < CopiesIn([kind |-> "reveal"], tasks)

\* the results computed by the step
ScoredResults ==
    {t.result : t \in {x \in BagToSet(tasks') :
                          /\ x.kind = "response"
                          /\ CopiesIn(x, tasks') > CopiesIn(x, tasks)}}

C28_TimerNeverBlocked ==
    /\ \A n \in 1..TickLimit :
           (HintsInFlight > 0 /\ questionTimer /\ timeRemaining = n)
               ~> (timeRemaining < n \/ ~questionTimer)
    /\ questionTimer ~> (screen = "result" /\ questionsAnswered > 0)

\* the countdown ran out and the submission was completed while a hint was
\* still pending
C28_Witness ==
    /\ screen = "result"
    /\ questionsAnswered > 0
    /\ timeRemaining = 0
    /\ HintsInFlight > 0

----------------------------------------------------------------------------
(* Properties of the fallback hint, checked under SpecFallback *)

\* the stated hint body: the entry of the upper-cased category at the level,
\* the generic entry for any other or missing category
StatedBody(category, hintLevel) ==
    IF toUpperCase(category) \in {"EC2", "S3", "LAMBDA", "RDS", "VPC"}
    THEN enhancedHintTemplates(toUpperCase(category), hintLevel, "base")
    ELSE defaultHints(hintLevel, "base")

\* C29: the fallback hint is a function of the question category, the NPC and
\* the hintLevel: its hint body is the entry of the upper-cased category among
\* EC2 / S3 / LAMBDA / RDS / VPC (the generic one otherwise) at the hintLevel,
\* and its display message is one of the NPC's hintStyles with the {hint}
\* placeholder replaced by that hint body.
C29_FallbackIsTemplatedBody ==
    op = "generateEnhancedFallbackHint" =>
        /\ ret = enhancedFallbackHintOf(args.questionData, currentNpc,
                                        args.hintLevel)
        /\ ret.hint = StatedBody(args.questionData.category, args.hintLevel)
        /\ ret.message \in {replaceHint(hintStyle, ret.hint) :
                               hintStyle \in hintStyles(currentNpc)}

----------------------------------------------------------------------------
(* Properties of the progression state, checked under SpecProgress *)

\* level, experience, totalScore, streakCount, maxStreak and achievements
progression ==
    <<currentLevel, currentExp, totalScore, streakCount, maxStreak,
      achievements>>

----------------------------------------------------------------------------
(* Properties of the persistence step, checked under SpecPersist *)

\* an addScore call that ended by the exception of saveUserProgress
SaveRaised == AddScoreStep /\ ret' = Thrown

\* the achievements a complete run of checkAchievements leaves, from the
\* state before the call and the arguments of the call
CheckedAfter ==
    checkAchievements(achievements,
                      getPlayerStats(correctAnswers, questionsAnswered,
                                     totalScore', maxStreak', streakCount'),
                      args'.questionResult).achievements

\* C31: when saving the snapshot raises in addScore, the progression state in
\* memory is the one of the whole call: totalScore and experience have the
\* score added, the streak counters follow the answer, the level is raised if
\* a threshold was reached and the achievements are those that the check of
\* the new state unlocks; in every state totalScore equals the experience,
\* the level is in 1..20, 0 <= streakCount <= maxStreak and no achievement is
\* listed twice.
C31_SaveFailureKeepsStateWhole ==
    /\ [](/\ totalScore = currentExp
          /\ currentLevel \in 1..Len(levelThresholds)
          /\ 0 <= streakCount /\ streakCount <= maxStreak
          /\ NoDuplicates(achievements))
    /\ [][SaveRaised =>
            /\ totalScore' = totalScore + args'.score
            /\ currentExp' = currentExp + args'.score
            /\ streakCount' = IF CorrectCall(args') THEN streakCount + 1 ELSE 0
            /\ maxStreak' = Max(maxStreak, streakCount')
            /\ currentLevel' = Max(currentLevel, calculateLevel(currentExp'))
            /\ achievements' = CheckedAfter
            /\ storage' = storage]_vars

\* the first addScore raised in saveUserProgress after a level-up and an unlock
C31_Witness ==
    /\ op = "addScore"
    /\ ret = Thrown
    /\ storage = Null
    /\ currentLevel > 1
    /\ achievements # <<>>

----------------------------------------------------------------------------
(* Properties of the category badges, checked under SpecCategory *)

\* the badge of a category
CategoryBadge(category) ==
    CASE category = "EC2" -> "ec2_expert"
      [] category = "S3" -> "s3_master"
      [] category = "Lambda" -> "lambda_guru"

\* C32: once ten questions of the EC2, S3 or Lambda category have been
\* answered correctly (counted by the GameManager and applied by addScore ten
\* times in a row), the badge of that category (ec2_expert, s3_master,
\* lambda_guru) is unlocked.
C32_CategoryBadgesUnlock ==
    \A category \in {"EC2", "S3", "Lambda"} :
        (/\ op = "addScore"
         /\ currentQuestion.category = category
         /\ correctAnswers >= 10
         /\ streakCount >= 10)
        => CategoryBadge(category) \in Range(achievements)

----------------------------------------------------------------------------
(* Properties of speed_demon, checked under SpecSpeed *)

\* whole seconds counted down since startQuestionTimer showed the question
ElapsedSeconds == currentQuestion.timeLimit - timeRemaining

\* C33: speed_demon is unlocked only by a correct answer that was submitted
\* at most 10 seconds after the question was shown, whatever the time limit
\* of the question is.
C33_SpeedDemonWithinTenSeconds ==
    "speed_demon" \in Range(achievements)
        => /\ result # Null
           /\ result.isCorrect
           /\ ElapsedSeconds <= 10

----------------------------------------------------------------------------
(* Properties of the hint penalty, checked under SpecPenalty *)

\* the hints of the question whose typing has started: those being typed,
\* those waiting for continue and those the player has continued from
PresentedHints ==
    hintsUsed + CountIn(tasks, {"hint"}) + Len(WaitersOf("hint"))

\* C34: the hintPenalty of the score of a submission is 10 times the number
\* of hints whose presentation had started for the question when the answer
\* was submitted, including a hint still being typed or waiting for continue.
\* (No presentation starts between the submission and the score under
\* SpecPenalty, so the number is the same at both moments.)
C34_PenaltyCountsPresentedHints ==
    [][ScoreStep =>
          \A r \in ScoredResults : r.hintPenalty = 10 * PresentedHints]_vars

----------------------------------------------------------------------------
(* Properties of hintsUsed across questions, checked under SpecGame *)

\* the step loads a question: loadQuestion is the only caller of
\* startQuestionTimer
QuestionLoaded == ~questionTimer /\ questionTimer'

\* C35: hintsUsed is 0 when a question is loaded, and while the question is
\* on it never exceeds the number of hints requested for that question: a
\* request made during an earlier question that completes later adds nothing
\* to it.
C35_HintsUsedOfThisQuestion ==
    /\ [][QuestionLoaded => hintsUsed' = 0]_vars
    /\ [](currentQuestion # Null => hintsUsed <= Len(resolverCalls))

----------------------------------------------------------------------------
(* Properties of the hint levels, checked under SpecHint *)

\* C36: every hintLevel that requestHint passes to the resolver is in 1..3,
\* and the levels passed for one question are strictly increasing, so that no
\* level is requested twice.
C36_HintLevelsIncrease ==
    /\ \A i \in 1..Len(resolverCalls) : resolverCalls[i] \in 1..3
    /\ \A i, j \in 1..Len(resolverCalls) :
           i < j => resolverCalls[i] < resolverCalls[j]

----------------------------------------------------------------------------
(* Properties of concurrent typed effects, checked under SpecHint *)

\* the effect t is suspended in the middle of its text before and after the
\* step
StaysSuspended(t) ==
    /\ t \in TypingTasksNow
    /\ CopiesIn(t, tasks') > 0
    /\ t.k < Len(MessageOfTask(t))

\* the step is skipDialogue
SkipStep == ~isTyping' /\ UNCHANGED <<dialogueText, tasks, waiters>>

\* C37: a typed effect is cut short only by a skip issued while it is active.
\* The flag that the effect tests after each character, isTyping, is cleared
\* while the effect is suspended in the middle of its text only by
\* skipDialogue, and once cleared it stays cleared until the effect has
\* resumed: neither the start nor the completion of another typed effect
\* changes it.
C37_OnlySkipCutsShort ==
    [][\A t \in TypingTasksNow :
           StaysSuspended(t) => (isTyping' = isTyping \/ SkipStep)]_vars

----------------------------------------------------------------------------
(* Properties of the submissions of one question, checked under SpecResubmit *)

\* the submissions of the question for which calculateScore has run: those
\* whose NPC response is being typed or shown and those already counted
ScoredSubmissions ==
    questionsAnswered + CountIn(tasks, {"response", "shown"})

\* C38: at most one submission of the loaded question is scored, whether the
\* timer or the player submitted first and whatever the player selects or
\* clicks during the answer-reveal wait.
C38_OneScorePerQuestion == ScoredSubmissions <= 1

----------------------------------------------------------------------------
(* Properties of the countdown over questions, checked under SpecTimer *)

\* 0 <= timeRemaining <= timeLimit while a question is loaded
TimeRemainingInRange ==
    currentQuestion # Null =>
        /\ 0 <= timeRemaining
        /\ timeRemaining <= currentQuestion.timeLimit

\* the step accepts a submission, from the button or from timeUp
SubmissionStep == SubmitsInFlight' > SubmitsInFlight

LoadStep ==
    /\ currentQuestion' # Null
    /\ questionTimer'
    /\ timeRemaining' = currentQuestion'.timeLimit
    /\ selectedAnswer' = NoAnswer
    /\ hintsUsed' = 0

\* the step is resetGameState without a load after it
ResetStep == currentQuestion' = Null /\ timeRemaining' = 0 /\ ~questionTimer'

----------------------------------------------------------------------------
(* Properties of getExpProgress, checked under SpecExp *)

\* C40: at a level L in 1..19 getExpProgress reports current = currentExp
\* minus the threshold of level L and required = the threshold of level L + 1
\* minus the threshold of level L; current is 0 exactly when the experience
\* is the threshold of L, and 0 <= current < required.
C40_ExpProgressWithinLevel ==
    (op = "getExpProgress" /\ currentLevel \in 1..19) =>
        /\ ret.current = currentExp - levelThresholds[currentLevel]
        /\ ret.required = levelThresholds[currentLevel + 1]
                              - levelThresholds[currentLevel]
        /\ (ret.current = 0 <=> currentExp = levelThresholds[currentLevel])
        /\ 0 <= ret.current
        /\ ret.current < ret.required

====
